---- MODULE Spec2Model ----
(***************************************************************************)
(* MeteoSwissRadarView (custom_components/meteoswiss_precipitation/api.py): *)
(* the GET proxy handler and the OPTIONS preflight handler, run for NReq    *)
(* concurrent inbound requests on one event loop.  A handler runs without   *)
(* interruption between two awaits; the awaits of get() are the outbound    *)
(* session.get (status line and headers of the upstream) and                *)
(* response.read() (the upstream body).                                     *)
(***************************************************************************)
EXTENDS Integers, Sequences, FiniteSets, TLC

\* ------------------------------------------------------------------ bounds
NReq == 2
MaxPathLen == 2
MaxQueryLen == 2

Requests == 1..NReq

\* ------------------------------------------------------- strings as sequences
\* A string is a sequence of pieces (characters, or the literal and
\* interpolated parts of an f-string).
RECURSIVE Strs(_, _)
Strs(alphabet, n) ==
    IF n = 0 THEN {<<>>}
    ELSE LET shorter == Strs(alphabet, n - 1)
         IN  shorter \cup {Append(s, c) : s \in {t \in shorter : Len(t) = n - 1}, c \in alphabet}

\* Python's  piece in s
Contains(s, piece) == \E i \in DOMAIN s : s[i] = piece

PathAlphabet == {"a", "/", "?"}
QueryAlphabet == {"k", "=", "&"}
AllPaths == Strs(PathAlphabet, MaxPathLen)
AllQueries == Strs(QueryAlphabet, MaxQueryLen)
\* the inbound requests of the concurrent runs
SampleTargets ==
    {[path |-> <<>>, query |-> <<>>], [path |-> <<"a", "/", "a">>, query |-> <<"k", "=", "k">>]}
SamplePaths == {t.path : t \in SampleTargets}

\* ------------------------------------------------------------ api.py line 9
METEOSWISS_BASE_URL == <<"https://www.meteoswiss.admin.ch/product/output">>

\* lines 23-28: the f-string joins, the query appended only when truthy
BuildURLAlwaysQuery(path, query_string) ==
    METEOSWISS_BASE_URL \o <<"/">> \o path \o <<"?">> \o query_string

BuildURL(path, query_string) ==
    LET meteoswiss_url == METEOSWISS_BASE_URL \o <<"/">> \o path
    IN  IF query_string # <<>>
        THEN meteoswiss_url \o <<"?">> \o query_string
        ELSE meteoswiss_url

\* ------------------------------------------------------------- exceptions
\* The classes the outbound call, the body read and web.Response raise, each
\* with its base classes (itself included).
Bases(cls) ==
    CASE cls = "ClientConnectorError" ->
            {"ClientConnectorError", "ClientOSError", "ClientConnectionError",
             "ClientError", "OSError", "Exception"}
      [] cls = "ClientConnectorDNSError" ->
            {"ClientConnectorDNSError", "ClientConnectorError", "ClientOSError",
             "ClientConnectionError", "ClientError", "OSError", "Exception"}
      [] cls = "ClientConnectorCertificateError" ->
            {"ClientConnectorCertificateError", "ClientSSLError", "ClientConnectorError",
             "ClientOSError", "ClientConnectionError", "ClientError", "OSError",
             "ValueError", "Exception"}
      [] cls = "ClientPayloadError" -> {"ClientPayloadError", "ClientError", "Exception"}
      [] cls = "TimeoutError" -> {"TimeoutError", "Exception"}
      [] cls = "ValueError" -> {"ValueError", "Exception"}
      [] OTHER -> {cls}

IsInstance(exc, cls) == cls \in Bases(exc.cls)

ConnectionRefused ==
    [cls |-> "ClientConnectorError", msg |-> "Cannot connect to host: Connection refused"]
DNSFailure ==
    [cls |-> "ClientConnectorDNSError", msg |-> "Cannot connect to host: Name or service not known"]
TLSFailure ==
    [cls |-> "ClientConnectorCertificateError", msg |-> "Cannot connect to host: certificate verify failed"]
PayloadError ==
    [cls |-> "ClientPayloadError", msg |-> "Response payload is not completed"]
\* ClientTimeout(total=30) expiring: the session's timer raises
\* asyncio.TimeoutError, whose str() is empty
TotalTimeout == [cls |-> "TimeoutError", msg |-> ""]

\* --------------------------------------------------------------- upstream
Statuses == {200, 404, 503}
Bodies == {<<"b1">>, <<"b1", "b2">>}
ContentTypes ==
    {<<"image/png">>, <<"text/html", "; ", "charset", "=", "utf-8">>}
\* the upstream's header sets: with and without Content-Type
UpstreamHeaders == {<<>>} \cup {("Content-Type" :> t) : t \in ContentTypes}

NoExc == [cls |-> "none", msg |-> ""]
NoAnswer == [kind |-> "none"]
\* what the upstream sends for one outbound call; read/readexc record what
\* became of response.read()
UpstreamResponses ==
    {[kind |-> "response", status |-> s, headers |-> h, body |-> b,
      read |-> "unread", readexc |-> NoExc] :
        s \in Statuses, h \in UpstreamHeaders, b \in Bodies}
GetFailures == {ConnectionRefused, DNSFailure, TLSFailure, TotalTimeout}
ReadFailures == {PayloadError, TotalTimeout}

\* CIMultiDictProxy.get(name, default)
HeadersGet(headers, name, default) ==
    IF name \in DOMAIN headers THEN headers[name] ELSE default

\* ----------------------------------------------------------- web.Response
\* aiohttp's constructor as the handler uses it: keyword arguments given as a
\* record; text and body exclude each other, a content_type argument must not
\* carry a charset, text defaults to text/plain in utf-8.
WebResponse(args) ==
    LET has(f) == f \in DOMAIN args
        hdrs == IF has("headers") THEN args.headers ELSE <<>>
    IN  IF has("body") /\ has("text")
        THEN [raised |-> TRUE,
              exc |-> [cls |-> "ValueError", msg |-> "body and text are not allowed together"]]
        ELSE IF has("content_type") /\ Contains(args.content_type, "charset")
        THEN [raised |-> TRUE,
              exc |-> [cls |-> "ValueError",
                       msg |-> "charset must not be in content_type argument"]]
        ELSE IF has("text")
        THEN [raised |-> FALSE,
              value |-> [status |-> args.status, body |-> args.text,
                         content_type |-> <<"text/plain">>, charset |-> "utf-8",
                         headers |-> hdrs]]
        ELSE [raised |-> FALSE,
              value |-> [status |-> args.status,
                         body |-> IF has("body") THEN args.body ELSE <<>>,
                         content_type |-> IF has("content_type") THEN args.content_type ELSE <<>>,
                         charset |-> "",
                         headers |-> hdrs]]

\* lines 58-63
ProxyHeaders ==
    ("Access-Control-Allow-Origin" :> "*")
    @@ ("Access-Control-Allow-Methods" :> "GET, OPTIONS")
    @@ ("Access-Control-Allow-Headers" :> "Content-Type")
    @@ ("Cache-Control" :> "max-age=300")

\* lines 83-87
OptionsHeadersWithCache == ProxyHeaders

OptionsHeaders ==
    ("Access-Control-Allow-Origin" :> "*")
    @@ ("Access-Control-Allow-Methods" :> "GET, OPTIONS")
    @@ ("Access-Control-Allow-Headers" :> "Content-Type")

\* lines 42-45: the answer to an upstream status other than 200
NonOkResponsePassthrough(response) ==
    WebResponse([status |-> response.status, body |-> response.body])

NonOkResponse(response) ==
    WebResponse([status |-> response.status,
                 text |-> <<"MeteoSwiss API returned ", ToString(response.status)>>])

\* line 48
ContentTypeOf(response) ==
    HeadersGet(response.headers, "Content-Type", <<"application/json">>)

\* lines 54-64: the proxied answer to an upstream 200
ProxiedResponse(data, content_type) ==
    WebResponse([body |-> data, status |-> 200, content_type |-> content_type,
                 headers |-> ProxyHeaders])

\* lines 66-77: the two except clauses of get(), tried in order
HandleExceptionGeneric502(err) ==
    IF IsInstance(err, "ClientError")
    THEN [returned |-> TRUE,
          response |-> WebResponse([status |-> 502,
                                    text |-> <<"Error connecting to MeteoSwiss">>]).value]
    ELSE [returned |-> TRUE,
          response |-> WebResponse([status |-> 500,
                                    text |-> <<"Internal server error: ", err.msg>>]).value]

HandleExceptionClientOnly(err) ==
    IF IsInstance(err, "ClientError")
    THEN [returned |-> TRUE,
          response |-> WebResponse([status |-> 502,
                                    text |-> <<"Error connecting to MeteoSwiss: ", err.msg>>]).value]
    ELSE [returned |-> FALSE, exc |-> err]

HandleException(err) ==
    IF IsInstance(err, "ClientError")
    THEN [returned |-> TRUE,
          response |-> WebResponse([status |-> 502,
                                    text |-> <<"Error connecting to MeteoSwiss: ", err.msg>>]).value]
    ELSE IF IsInstance(err, "Exception")
    THEN [returned |-> TRUE,
          response |-> WebResponse([status |-> 500,
                                    text |-> <<"Internal server error: ", err.msg>>]).value]
    ELSE [returned |-> FALSE, exc |-> err]

\* a statement of the try block: its value is returned, its exception handled
Try(result) ==
    IF result.raised THEN HandleException(result.exc)
    ELSE [returned |-> TRUE, response |-> result.value]

\* ------------------------------------------------------------------ state
VARIABLES
    pc,              \* where each request's handler stands
    method,          \* the inbound request: method, {path} and query string
    path,
    query_string,
    meteoswiss_url,  \* local of get()
    content_type,    \* local of get()
    outbound,        \* the outbound GETs issued for each request, in order
    upstream,        \* what the upstream answered to each request's call
    responses,       \* the responses each handler returned
    escaped          \* the exceptions each handler let propagate

vars == <<pc, method, path, query_string, meteoswiss_url, content_type,
          outbound, upstream, responses, escaped>>

Init ==
    /\ pc = [r \in Requests |-> "idle"]
    /\ method = [r \in Requests |-> "none"]
    /\ path = [r \in Requests |-> <<>>]
    /\ query_string = [r \in Requests |-> <<>>]
    /\ meteoswiss_url = [r \in Requests |-> <<>>]
    /\ content_type = [r \in Requests |-> <<>>]
    /\ outbound = [r \in Requests |-> <<>>]
    /\ upstream = [r \in Requests |-> NoAnswer]
    /\ responses = [r \in Requests |-> <<>>]
    /\ escaped = [r \in Requests |-> <<>>]

\* the handler of request r ends: it returns a response or lets err propagate
Finish(r, outcome) ==
    /\ pc' = [pc EXCEPT ![r] = "done"]
    /\ IF outcome.returned
       THEN /\ responses' = [responses EXCEPT ![r] = Append(@, outcome.response)]
            /\ UNCHANGED escaped
       ELSE /\ escaped' = [escaped EXCEPT ![r] = Append(@, outcome.exc)]
            /\ UNCHANGED responses

\* lines 19-37: get() up to its first await, the outbound session.get
get_start(r, p, q) ==
    /\ pc[r] = "idle"
    /\ method' = [method EXCEPT ![r] = "GET"]
    /\ path' = [path EXCEPT ![r] = p]
    /\ query_string' = [query_string EXCEPT ![r] = q]
    /\ meteoswiss_url' = [meteoswiss_url EXCEPT ![r] = BuildURL(p, q)]
    /\ outbound' = [outbound EXCEPT ![r] = Append(@, BuildURL(p, q))]
    /\ pc' = [pc EXCEPT ![r] = "awaiting_get"]
    /\ UNCHANGED <<content_type, upstream, responses, escaped>>

\* lines 38-45: the upstream answers with a status other than 200
get_non_ok(r, response) ==
    /\ pc[r] = "awaiting_get"
    /\ response.status # 200
    /\ upstream' = [upstream EXCEPT ![r] = response]
    /\ Finish(r, Try(NonOkResponse(response)))
    /\ UNCHANGED <<method, path, query_string, meteoswiss_url, content_type, outbound>>

\* lines 38, 48, 51: the upstream answers 200; get() keeps the content type
\* and awaits the body
get_ok_shared(r, response) ==
    /\ pc[r] = "awaiting_get"
    /\ response.status = 200
    /\ upstream' = [upstream EXCEPT ![r] = response]
    /\ content_type' = [q \in Requests |-> ContentTypeOf(response)]
    /\ pc' = [pc EXCEPT ![r] = "awaiting_read"]
    /\ UNCHANGED <<method, path, query_string, meteoswiss_url, outbound, responses, escaped>>

get_ok(r, response) ==
    /\ pc[r] = "awaiting_get"
    /\ response.status = 200
    /\ upstream' = [upstream EXCEPT ![r] = response]
    /\ content_type' = [content_type EXCEPT ![r] = ContentTypeOf(response)]
    /\ pc' = [pc EXCEPT ![r] = "awaiting_read"]
    /\ UNCHANGED <<method, path, query_string, meteoswiss_url, outbound, responses, escaped>>

\* lines 33-37, 66-77: session.get raises
get_failed_retry(r, err) ==
    /\ pc[r] = "awaiting_get"
    /\ Len(outbound[r]) < 3
    /\ outbound' = [outbound EXCEPT ![r] = Append(@, meteoswiss_url[r])]
    /\ UNCHANGED <<pc, method, path, query_string, meteoswiss_url, content_type,
                   upstream, responses, escaped>>

get_failed(r, err) ==
    /\ pc[r] = "awaiting_get"
    /\ upstream' = [upstream EXCEPT ![r] = [kind |-> "error", exc |-> err]]
    /\ Finish(r, HandleException(err))
    /\ UNCHANGED <<method, path, query_string, meteoswiss_url, content_type, outbound>>

\* lines 51-64: the body arrives and the proxied response is built
read_done(r) ==
    /\ pc[r] = "awaiting_read"
    /\ upstream' = [upstream EXCEPT ![r].read = "ok"]
    /\ Finish(r, Try(ProxiedResponse(upstream[r].body, content_type[r])))
    /\ UNCHANGED <<method, path, query_string, meteoswiss_url, content_type, outbound>>

\* lines 51, 66-77: response.read() raises
read_failed(r, err) ==
    /\ pc[r] = "awaiting_read"
    /\ upstream' = [upstream EXCEPT ![r].read = "failed", ![r].readexc = err]
    /\ Finish(r, HandleException(err))
    /\ UNCHANGED <<method, path, query_string, meteoswiss_url, content_type, outbound>>

\* lines 79-88
options(r, p) ==
    /\ pc[r] = "idle"
    /\ method' = [method EXCEPT ![r] = "OPTIONS"]
    /\ path' = [path EXCEPT ![r] = p]
    /\ Finish(r, [returned |-> TRUE,
                  response |-> WebResponse([status |-> 200, headers |-> OptionsHeaders]).value])
    /\ UNCHANGED <<query_string, meteoswiss_url, content_type, outbound, upstream>>

Next ==
    \E r \in Requests :
        \/ \E t \in SampleTargets : get_start(r, t.path, t.query)
        \/ \E response \in UpstreamResponses : get_non_ok(r, response)
        \/ \E response \in UpstreamResponses : get_ok(r, response)
        \/ \E err \in GetFailures : get_failed(r, err)
        \/ read_done(r)
        \/ \E err \in ReadFailures : read_failed(r, err)
        \/ \E p \in SamplePaths : options(r, p)

Spec == Init /\ [][Next]_vars

\* URL construction alone: one request, every path and query of the bounds
NextURL == \E p \in AllPaths, q \in AllQueries : get_start(1, p, q)

SpecURL == Init /\ [][NextURL]_vars

\* ------------------------------------------------------------------ claims
IsGet(r) == method[r] = "GET"
Done(r) == pc[r] = "done"
Returned(r) == Len(responses[r]) = 1
Resp(r) == responses[r][1]
Answered(r) == upstream[r].kind = "response"
Failed(r) == upstream[r].kind = "error"
TimedOut(r) ==
    \/ Failed(r) /\ upstream[r].exc.cls = "TimeoutError"
    \/ Answered(r) /\ upstream[r].read = "failed" /\ upstream[r].readexc.cls = "TimeoutError"
IsPlainText(resp) == resp.content_type = <<"text/plain">> /\ resp.charset = "utf-8"
HasHeader(resp, name, value) ==
    name \in DOMAIN resp.headers /\ resp.headers[name] = value
HasCorsHeaders(resp) ==
    /\ HasHeader(resp, "Access-Control-Allow-Origin", "*")
    /\ HasHeader(resp, "Access-Control-Allow-Methods", "GET, OPTIONS")
    /\ HasHeader(resp, "Access-Control-Allow-Headers", "Content-Type")
\* the Content-Type the upstream sent, application/json when it sent none
SentContentType(r) ==
    IF "Content-Type" \in DOMAIN upstream[r].headers
    THEN upstream[r].headers["Content-Type"]
    ELSE <<"application/json">>

\* C1: every response of the GET handler (upstream 200, upstream non-200,
\* 502, 500) carries the three CORS headers and Cache-Control: max-age=300.
C1_EveryGetResponseHasHeaders ==
    \A r \in Requests :
        (IsGet(r) /\ Returned(r)) =>
            /\ HasCorsHeaders(Resp(r))
            /\ HasHeader(Resp(r), "Cache-Control", "max-age=300")

\* C2: an upstream 200 with body B and Content-Type T (T may carry a
\* parameter such as "; charset=utf-8") is answered with status 200, body B
\* and content type T; without an upstream Content-Type the content type is
\* application/json.
C2_Upstream200IsRelayed ==
    \A r \in Requests :
        (IsGet(r) /\ Done(r) /\ Answered(r) /\ upstream[r].status = 200
            /\ upstream[r].read = "ok") =>
            /\ Returned(r)
            /\ Resp(r).status = 200
            /\ Resp(r).body = upstream[r].body
            /\ Resp(r).content_type = SentContentType(r)

\* C3: an upstream status S other than 200 is answered with exactly status S
\* and a synthetic plain-text body that contains S; the upstream body is
\* never read and no part of it is in the response.
C3_NonOkStatusPropagated ==
    \A r \in Requests :
        (IsGet(r) /\ Done(r) /\ Answered(r) /\ upstream[r].status # 200) =>
            /\ Returned(r)
            /\ Resp(r).status = upstream[r].status
            /\ IsPlainText(Resp(r))
            /\ Contains(Resp(r).body, ToString(upstream[r].status))
            /\ upstream[r].read = "unread"
            /\ \A i \in DOMAIN Resp(r).body : ~Contains(upstream[r].body, Resp(r).body[i])

C3_Witness ==
    \E r \in Requests :
        /\ IsGet(r) /\ Done(r) /\ Answered(r) /\ upstream[r].status = 404
        /\ Returned(r) /\ Resp(r).status = 404
        /\ Resp(r).body = <<"MeteoSwiss API returned ", "404">>

\* C4: when the outbound call exceeds the 30 second total timeout, while
\* connecting or while reading the body, the GET handler answers 502.
C4_TimeoutIs502 ==
    \A r \in Requests :
        (IsGet(r) /\ Done(r) /\ TimedOut(r)) => (Returned(r) /\ Resp(r).status = 502)

\* C5: a transport failure (connection refused, DNS, TLS, a broken body
\* transfer), at connect time or while reading the body of a 200, is answered
\* with 502 and a plain-text body that includes the error's description.
C5_TransportFailureIs502 ==
    \A r \in Requests :
        /\ (IsGet(r) /\ Done(r) /\ Failed(r) /\ ~TimedOut(r)) =>
              /\ Returned(r)
              /\ Resp(r).status = 502
              /\ IsPlainText(Resp(r))
              /\ Contains(Resp(r).body, upstream[r].exc.msg)
        /\ (IsGet(r) /\ Done(r) /\ Answered(r) /\ upstream[r].read = "failed"
               /\ ~TimedOut(r)) =>
              /\ Returned(r)
              /\ Resp(r).status = 502
              /\ IsPlainText(Resp(r))
              /\ Contains(Resp(r).body, upstream[r].readexc.msg)

C5_Witness ==
    \E r1, r2 \in Requests :
        /\ Done(r1) /\ Failed(r1) /\ upstream[r1].exc.cls = "ClientConnectorError"
        /\ Returned(r1) /\ Resp(r1).status = 502
        /\ Done(r2) /\ Answered(r2) /\ upstream[r2].read = "failed"
        /\ upstream[r2].readexc.cls = "ClientPayloadError"
        /\ Returned(r2) /\ Resp(r2).status = 502

\* C6: a GET request ends in exactly one returned response and never in a
\* raised exception; the status is the upstream's, 502 or 500, and a failure
\* that is no transport failure gives a plain-text 500.
C6_AlwaysOneResponse ==
    \A r \in Requests :
        /\ escaped[r] = <<>>
        /\ Len(responses[r]) <= 1
        /\ (IsGet(r) /\ ~Done(r)) => responses[r] = <<>>
        /\ (IsGet(r) /\ Done(r)) =>
              /\ Returned(r)
              /\ \/ Answered(r) /\ Resp(r).status = upstream[r].status
                 \/ Resp(r).status = 502 /\ IsPlainText(Resp(r))
                 \/ Resp(r).status = 500 /\ IsPlainText(Resp(r))
              /\ (Answered(r) /\ upstream[r].status = 200 /\ upstream[r].read = "ok"
                    /\ Resp(r).status # 200) =>
                    (Resp(r).status = 500 /\ IsPlainText(Resp(r)))

C6_Witness ==
    \E r \in Requests :
        /\ IsGet(r) /\ Done(r) /\ Answered(r) /\ upstream[r].status = 200
        /\ upstream[r].read = "ok"
        /\ Returned(r) /\ Resp(r).status = 500

\* C7: the URL requested upstream is the fixed base, "/", the path suffix,
\* and "?" with the query string exactly when the query string is not empty.
C7_Base == <<"https://www.meteoswiss.admin.ch/product/output">>

C7_UpstreamURL ==
    \A r \in Requests :
        (IsGet(r) /\ pc[r] # "idle") =>
            /\ Len(outbound[r]) = 1
            /\ LET u == outbound[r][1]
                   b == Len(C7_Base)
                   p == path[r]
                   q == query_string[r]
               IN  /\ Len(u) >= b + 1 + Len(p)
                   /\ SubSeq(u, 1, b) = C7_Base
                   /\ u[b + 1] = "/"
                   /\ SubSeq(u, b + 2, b + 1 + Len(p)) = p
                   /\ IF q = <<>>
                      THEN Len(u) = b + 1 + Len(p)
                      ELSE /\ Len(u) = b + 2 + Len(p) + Len(q)
                           /\ u[b + 2 + Len(p)] = "?"
                           /\ SubSeq(u, b + 3 + Len(p), Len(u)) = q

C7_Witness ==
    /\ pc[1] = "awaiting_get"
    /\ path[1] = <<"/", "?">>
    /\ query_string[1] = <<"k", "=">>
    /\ outbound[1] = <<C7_Base \o <<"/", "/", "?", "?", "k", "=">>>>

\* C8: OPTIONS, for every path, is answered 200 without a body, with exactly
\* the three CORS headers and no Cache-Control, and without an outbound call.
C8_OptionsPreflight ==
    \A r \in Requests :
        (method[r] = "OPTIONS" /\ Done(r)) =>
            /\ Returned(r)
            /\ Resp(r).status = 200
            /\ Resp(r).body = <<>>
            /\ HasCorsHeaders(Resp(r))
            /\ Cardinality(DOMAIN Resp(r).headers) = 3
            /\ "Cache-Control" \notin DOMAIN Resp(r).headers
            /\ outbound[r] = <<>>
            /\ upstream[r] = NoAnswer

C8_Witness ==
    \E r1, r2 \in Requests :
        /\ method[r1] = "OPTIONS" /\ Done(r1) /\ path[r1] = <<>>
        /\ method[r2] = "OPTIONS" /\ Done(r2) /\ path[r2] # <<>>
        /\ Returned(r1) /\ Returned(r2)

\* C9: with concurrent GET requests interleaved in any order, each request
\* asks for its own URL and its response is the one derived from its own
\* upstream answer (status, body, content type or error).
C9_OwnURL(r) ==
    C7_Base \o <<"/">> \o path[r]
        \o (IF query_string[r] = <<>> THEN <<>> ELSE <<"?">> \o query_string[r])

C9_NoInterference ==
    \A r \in Requests :
        /\ (IsGet(r) /\ pc[r] # "idle") =>
              (outbound[r] = <<C9_OwnURL(r)>> /\ meteoswiss_url[r] = C9_OwnURL(r))
        /\ (IsGet(r) /\ pc[r] = "awaiting_read") => content_type[r] = SentContentType(r)
        /\ (IsGet(r) /\ Done(r)) =>
              /\ Returned(r)
              /\ Failed(r) =>
                    (Resp(r).status \in {500, 502} /\ Contains(Resp(r).body, upstream[r].exc.msg))
              /\ (Answered(r) /\ upstream[r].status # 200) =>
                    /\ Resp(r).status = upstream[r].status
                    /\ Contains(Resp(r).body, ToString(upstream[r].status))
              /\ (Answered(r) /\ upstream[r].read = "failed") =>
                    /\ Resp(r).status \in {500, 502}
                    /\ Contains(Resp(r).body, upstream[r].readexc.msg)
              /\ (Answered(r) /\ upstream[r].read = "ok") =>
                    \/ /\ Resp(r).status = 200
                       /\ Resp(r).body = upstream[r].body
                       /\ Resp(r).content_type = SentContentType(r)
                    \/ /\ Resp(r).status = 500
                       /\ Contains(SentContentType(r), "charset")

C9_Witness ==
    \E r1, r2 \in Requests :
        /\ IsGet(r1) /\ IsGet(r2) /\ Done(r1) /\ Done(r2)
        /\ path[r1] # path[r2]
        /\ Answered(r1) /\ Answered(r2)
        /\ upstream[r1].read = "ok" /\ upstream[r2].read = "ok"
        /\ upstream[r1].body # upstream[r2].body
        /\ SentContentType(r1) # SentContentType(r2)
        /\ Resp(r1).status = 200 /\ Resp(r2).status = 200
        /\ Resp(r1).body = upstream[r1].body /\ Resp(r2).body = upstream[r2].body

\* C10: a GET request issues at most one outbound GET: after a non-200
\* status, a transport failure or a timeout the handler answers at once and
\* makes no second call.
C10_AtMostOneOutboundCall ==
    \A r \in Requests :
        /\ Len(outbound[r]) <= 1
        /\ (IsGet(r) /\ (Failed(r) \/ Answered(r))) => (Done(r) \/ pc[r] = "awaiting_read")
        /\ (IsGet(r) /\ (Failed(r) \/ (Answered(r) /\ upstream[r].status # 200))) =>
              (Done(r) /\ Returned(r) /\ Len(outbound[r]) = 1)

C10_Witness ==
    \E r1, r2 \in Requests :
        /\ IsGet(r1) /\ Done(r1) /\ TimedOut(r1) /\ Len(outbound[r1]) = 1
        /\ IsGet(r2) /\ Done(r2) /\ Answered(r2) /\ upstream[r2].status = 503
        /\ Len(outbound[r2]) = 1

====
